---------------------------- MODULE Spec2Model ----------------------------
(***************************************************************************)
(* A model of vmix_player.cpp: a frame-stepping video player built on the  *)
(* FFmpeg demux/decode API.  The program state is the FFPlayer struct and  *)
(* the locals of main's command loop; the container and the decoder are    *)
(* the environment, modelled by the packets of the opened stream, the      *)
(* demuxer's read position and the decoder's buffered frames.              *)
(***************************************************************************)
EXTENDS Integers, Sequences, FiniteSets, TLC

VARIABLES
    stream,          \* the opened input: rates, time base, packets, decoder delay
    pc,              \* "start" before open, "loop" in the command loop, "done" after return
    readPos,         \* demuxer position: index of the packet av_read_frame returns next
    held,            \* frames buffered inside the decoder (dec_ctx)
    last_shown_pts,  \* FFPlayer::last_shown_pts
    current_frame,   \* main's current_frame
    playing,         \* main's playing
    cmd,             \* history: the command handled last, what it asked for and what it got
    conv,            \* the conversion functions' inputs and outputs (ConvSpec only)
    sws,             \* FFPlayer::sws_ctx, sws_src_w, sws_src_h, sws_src_fmt
    swsh,            \* history: the frames avframe_to_cvmat was called with
    res              \* FFPlayer::fmt_ctx and dec_ctx, and every acquisition and release so far

vars == <<stream, pc, readPos, held, last_shown_pts, current_frame, playing, cmd, conv,
          sws, swsh, res>>

-----------------------------------------------------------------------------
(* Bounds of the model *)

\* number of video frames of the longest stream
NumFrames == 6

\* largest frame number the conversions are tried on
MaxFrameNo == 8

\* AV_NOPTS_VALUE is INT64_MIN, below every timestamp a stream carries; the
\* model keeps it below every timestamp of its streams.
AV_NOPTS_VALUE == -4096

-----------------------------------------------------------------------------
(* TimebaseConverter: frame number <-> stream timestamp *)

Q(n, d) == [num |-> n, den |-> d]

\* av_inv_q
InvQ(q) == Q(q.den, q.num)

\* av_rescale_rnd(a, b, c, AV_ROUND_NEAR_INF): a * b / c rounded to the
\* nearest integer, halves away from zero; INT64_MIN on invalid operands.
\* (RescaleTrunc is the faulty variant that truncates instead of rounding.)
RescaleTrunc(a, b, c) ==
    IF c <= 0 \/ b < 0 THEN AV_NOPTS_VALUE
    ELSE IF a >= 0 THEN (a * b) \div c
    ELSE -(((-a) * b) \div c)

Rescale(a, b, c) ==
    IF c <= 0 \/ b < 0 THEN AV_NOPTS_VALUE
    ELSE IF a >= 0 THEN (a * b + (c \div 2)) \div c
    ELSE -(((-a) * b + (c \div 2)) \div c)

\* av_rescale_q(a, bq, cq) = av_rescale_rnd(a, bq.num * cq.den, cq.num * bq.den, NEAR_INF)
RescaleQ(a, bq, cq) == Rescale(a, bq.num * cq.den, cq.num * bq.den)

\* the frame rate both conversions use: avg_frame_rate, else r_frame_rate, else 25/1
EffRate(st) ==
    LET afr == IF st.avg_frame_rate.num # 0 THEN st.avg_frame_rate ELSE st.r_frame_rate
    IN  IF afr.num = 0 \/ afr.den = 0 THEN Q(25, 1) ELSE afr

frame_number_to_stream_ts(frame_number, st) ==
    RescaleQ(frame_number, InvQ(EffRate(st)), st.time_base)

pts_to_frame_number(pts, st) ==
    RescaleQ(pts, st.time_base, InvQ(EffRate(st)))

-----------------------------------------------------------------------------
(* The input: what avformat_open_input and avcodec_open2 find in the file *)

\* declared rates and time bases (AVStream::avg_frame_rate, r_frame_rate, time_base)
Rates ==
    { [avg_frame_rate |-> Q(25, 1),       r_frame_rate |-> Q(25, 1), time_base |-> Q(1, 90000)],
      [avg_frame_rate |-> Q(0, 1),        r_frame_rate |-> Q(30, 1), time_base |-> Q(1, 30)],
      [avg_frame_rate |-> Q(0, 1),        r_frame_rate |-> Q(0, 1),  time_base |-> Q(1, 50)],
      [avg_frame_rate |-> Q(24000, 1001), r_frame_rate |-> Q(0, 1),  time_base |-> Q(1, 1000)] }

\* what the frames of a stream look like
\*   cfr       frame i is stamped frame_number_to_stream_ts(i), in both timestamp fields
\*   ownpts    as cfr, but only the frame's own pts is set (no best-effort timestamp)
\*   nopts     no frame carries a timestamp
\*   gap       as cfr, with frame `at` missing from the file
\*   badpkt    as cfr, with the decoder rejecting the packet of frame `at`
\*   badframe  as cfr, with frame `at` failing to decode
\*   audio     as cfr, with a packet of another stream after every video packet
\*   pair      as cfr, with two frames in every packet
\*   pairbusy  as pair, and the decoder refuses a packet (EAGAIN) while it has a
\*             frame ready to hand out
Shapes(n) ==
    { [kind |-> k, at |-> 0] : k \in {"cfr", "ownpts", "nopts", "audio", "pair", "pairbusy"} }
    \cup { [kind |-> "gap", at |-> a] : a \in 1 .. (n - 1) }
    \cup { [kind |-> k, at |-> a] : k \in {"badpkt", "badframe"}, a \in 0 .. (n - 1) }

\* timestamp of frame i of a stream that keeps its declared frame rate
StampOf(i, rc) == frame_number_to_stream_ts(i, rc)

\* AVFrame as avcodec_receive_frame hands it out; `no` is the frame's place in the stream
FrameOf(i, rc, sh) ==
    [ no   |-> i,
      best |-> IF sh.kind \in {"nopts", "ownpts"} THEN AV_NOPTS_VALUE ELSE StampOf(i, rc),
      pts  |-> IF sh.kind = "nopts" THEN AV_NOPTS_VALUE ELSE StampOf(i, rc),
      err  |-> sh.kind = "badframe" /\ sh.at = i,
      w    |-> 4,
      h    |-> 2,
      fmt  |-> "yuv420p" ]

\* AVPacket of the video stream carrying frames i .. j; a key frame every k frames
VideoPacket(i, j, rc, sh, k) ==
    [ video  |-> TRUE,
      key    |-> i % k = 0,
      ts     |-> StampOf(i, rc),
      ok     |-> ~(sh.kind = "badpkt" /\ sh.at = i),
      frames |-> [x \in 1 .. (j - i + 1) |-> FrameOf(i + x - 1, rc, sh)] ]

OtherPacket ==
    [ video |-> FALSE, key |-> TRUE, ts |-> 0, ok |-> TRUE, frames |-> <<>> ]

\* every packet av_read_frame returns, in file order, for a stream of n frames
PacketsOf(n, rc, sh, k) ==
    LET one == [i \in 1 .. n |-> VideoPacket(i - 1, i - 1, rc, sh, k)] IN
    CASE sh.kind = "gap" ->
           SelectSeq(one, LAMBDA p : p.frames[1].no # sh.at)
      [] sh.kind = "audio" ->
           [i \in 1 .. 2 * n |-> IF i % 2 = 1 THEN one[(i + 1) \div 2] ELSE OtherPacket]
      [] sh.kind \in {"pair", "pairbusy"} ->
           [i \in 1 .. (n + 1) \div 2 |->
               VideoPacket(2 * (i - 1), IF 2 * i - 1 < n THEN 2 * i - 1 ELSE n - 1, rc, sh, k)]
      [] OTHER -> one

StreamOf(n, rc, sh, k, d) ==
    [ avg_frame_rate |-> rc.avg_frame_rate,
      r_frame_rate   |-> rc.r_frame_rate,
      time_base      |-> rc.time_base,
      shape          |-> sh.kind,
      packets        |-> PacketsOf(n, rc, sh, k),
      delay          |-> d,
      busy           |-> sh.kind = "pairbusy" ]

\* stream lengths, key frame intervals and decoder delays (frames the decoder
\* holds back behind the packets it was fed)
Lengths      == {1, NumFrames}
KeyIntervals == {1, 3}
Delays       == {0, 1}

Streams ==
    UNION { { StreamOf(n, rc, sh, k, d) :
                rc \in Rates, sh \in Shapes(n), k \in KeyIntervals, d \in Delays } :
            n \in Lengths }

\* the frames of the file
AllFrames(st) ==
    UNION { { p.frames[i] : i \in DOMAIN p.frames } : p \in { st.packets[j] : j \in DOMAIN st.packets } }

\* the packet that carries the frame at place no of the stream
PacketOf(st, no) ==
    CHOOSE j \in DOMAIN st.packets :
        \E i \in DOMAIN st.packets[j].frames : st.packets[j].frames[i].no = no

\* the frame at place no of the stream
FrameAt(st, no) ==
    LET fs == st.packets[PacketOf(st, no)].frames
    IN  fs[CHOOSE i \in DOMAIN fs : fs[i].no = no]

-----------------------------------------------------------------------------
(* The decoder and the demuxer, as seek_and_decode_frame and decode_next_frame
   drive them *)

\* the timestamp a decoded frame is compared and recorded with: the
\* best-effort timestamp, else the frame's pts, else last_shown_pts + 1
EffPts(f, last) ==
    LET pts == IF f.best # AV_NOPTS_VALUE THEN f.best ELSE f.pts
    IN  IF pts = AV_NOPTS_VALUE THEN last + 1 ELSE pts

\* the test that ends the seek scan (ReachedStrict, ReachedFlipped: faulty
\* variants with the comparison off by one, and turned around)
ReachedStrict(pts, target_ts) == pts > target_ts

ReachedFlipped(pts, target_ts) == pts <= target_ts

Reached(pts, target_ts) == pts >= target_ts

\* avcodec_send_packet: the decoder takes the packet's frames behind the ones it holds
\* (SendPacketDropping: faulty variant, the frames it held are lost)
SendPacketDropping(h, pkt) == pkt.frames

SendPacket(h, pkt) == h \o pkt.frames

\* avcodec_receive_frame has a frame to hand out (else EAGAIN)
CanReceive(h, st) == Len(h) > st.delay

\* avcodec_send_packet returns an error: the packet is one the decoder cannot
\* take, or the decoder wants its output read first
Rejected(h, pkt, st) == ~pkt.ok \/ (st.busy /\ CanReceive(h, st))

\* avcodec_flush_buffers: the decoder drops every frame it holds
\* (FlushNothing: faulty variant, the flush left out)
FlushNothing(h) == h

Flush(h) == <<>>

\* where av_seek_frame(target_ts, AVSEEK_FLAG_BACKWARD) may leave the demuxer: at
\* a key frame of the video stream at or before target_ts; a target before the
\* first key frame is clamped to it by some demuxers and refused by others
SeekLandings(st, target_ts) ==
    LET keys == { i \in 1 .. Len(st.packets) : st.packets[i].video /\ st.packets[i].key }
        back == { i \in keys : st.packets[i].ts <= target_ts }
    IN  IF back # {} THEN back
        ELSE { i \in keys : \A j \in keys : i <= j }

\* the inner receive loop of seek_and_decode_frame: frames the decoder hands out
\* until one reaches the target, a frame fails to decode, or the decoder wants input
\* faulty variant of SeekDrain: last_shown_pts follows every frame passed over
RECURSIVE SeekDrainTracking(_, _, _, _, _)
SeekDrainTracking(h, st, target_ts, last, seen) ==
    IF ~CanReceive(h, st)
    THEN [got |-> FALSE, pts |-> last, no |-> -1, held |-> h, seen |-> seen]
    ELSE LET f == Head(h) IN
         IF f.err
         THEN [got |-> FALSE, pts |-> last, no |-> -1, held |-> Tail(h), seen |-> seen]
         ELSE LET pts == EffPts(f, last) IN
              IF Reached(pts, target_ts)
              THEN [got |-> TRUE, pts |-> pts, no |-> f.no, held |-> Tail(h), seen |-> seen]
              ELSE SeekDrainTracking(Tail(h), st, target_ts, pts, Append(seen, [pts |-> pts, no |-> f.no]))

RECURSIVE SeekDrain(_, _, _, _, _)
SeekDrain(h, st, target_ts, last, seen) ==
    IF ~CanReceive(h, st)
    THEN [got |-> FALSE, pts |-> last, no |-> -1, held |-> h, seen |-> seen]
    ELSE LET f == Head(h) IN
         IF f.err
         THEN [got |-> FALSE, pts |-> last, no |-> -1, held |-> Tail(h), seen |-> seen]
         ELSE LET pts == EffPts(f, last) IN
              IF Reached(pts, target_ts)
              THEN [got |-> TRUE, pts |-> pts, no |-> f.no, held |-> Tail(h), seen |-> seen]
              ELSE SeekDrain(Tail(h), st, target_ts, last, Append(seen, [pts |-> pts, no |-> f.no]))

\* the read loop of seek_and_decode_frame, from demuxer position pos
RECURSIVE SeekScan(_, _, _, _, _, _)
SeekScan(pos, h, st, target_ts, last, seen) ==
    IF pos > Len(st.packets)
    THEN [got |-> FALSE, pts |-> last, no |-> -1, readPos |-> pos, held |-> h, seen |-> seen]
    ELSE LET pkt == st.packets[pos] IN
         IF ~pkt.video \/ Rejected(h, pkt, st)
         THEN SeekScan(pos + 1, h, st, target_ts, last, seen)
         ELSE LET d == SeekDrain(SendPacket(h, pkt), st, target_ts, last, seen) IN
              IF d.got
              THEN [got |-> TRUE, pts |-> d.pts, no |-> d.no, readPos |-> pos + 1,
                    held |-> d.held, seen |-> d.seen]
              ELSE SeekScan(pos + 1, d.held, st, target_ts, d.pts, d.seen)

\* every way seek_and_decode_frame(p, target_frame_number) can end: av_seek_frame
\* fails and nothing changes, or it lands, the decoder is flushed and the scan runs
seek_and_decode_frame(st, pos, h, last, target_frame_number) ==
    LET target_ts == frame_number_to_stream_ts(target_frame_number, st) IN
    { [got |-> FALSE, pts |-> last, no |-> -1, readPos |-> pos, held |-> h,
       seen |-> <<>>, seek |-> FALSE, land |-> 0, target_ts |-> target_ts] }
    \cup
    UNION { { [got |-> r.got, pts |-> r.pts, no |-> r.no, readPos |-> r.readPos, held |-> r.held,
               seen |-> r.seen, seek |-> TRUE, land |-> l, target_ts |-> target_ts] :
              r \in { SeekScan(l, Flush(h), st, target_ts, last, <<>>) } } :
            l \in SeekLandings(st, target_ts) }

\* the inner receive loop of decode_next_frame: the first frame the decoder hands out
NextDrain(h, st, last) ==
    IF ~CanReceive(h, st)
    THEN [got |-> FALSE, pts |-> last, no |-> -1, held |-> h]
    ELSE LET f == Head(h) IN
         IF f.err
         THEN [got |-> FALSE, pts |-> last, no |-> -1, held |-> Tail(h)]
         ELSE [got |-> TRUE, pts |-> EffPts(f, last), no |-> f.no, held |-> Tail(h)]

\* faulty variant of decode_next_frame: at the end of the input it starts over
RECURSIVE ReadOn(_, _, _, _)
ReadOn(st, pos, h, last) ==
    IF pos > Len(st.packets)
    THEN [got |-> FALSE, pts |-> last, no |-> -1, readPos |-> pos, held |-> h]
    ELSE LET pkt == st.packets[pos] IN
         IF ~pkt.video \/ Rejected(h, pkt, st)
         THEN ReadOn(st, pos + 1, h, last)
         ELSE LET d == NextDrain(SendPacket(h, pkt), st, last) IN
              IF d.got
              THEN [got |-> TRUE, pts |-> d.pts, no |-> d.no, readPos |-> pos + 1, held |-> d.held]
              ELSE ReadOn(st, pos + 1, d.held, d.pts)

decode_next_frame_rewinding(st, pos, h, last) ==
    IF pos > Len(st.packets) THEN ReadOn(st, 1, <<>>, last) ELSE ReadOn(st, pos, h, last)

\* faulty variant of decode_next_frame: a packet the decoder rejects or a frame
\* that fails to decode ends the call without a frame
RECURSIVE decode_next_frame_aborting(_, _, _, _)
decode_next_frame_aborting(st, pos, h, last) ==
    IF pos > Len(st.packets)
    THEN [got |-> FALSE, pts |-> last, no |-> -1, readPos |-> pos, held |-> h]
    ELSE LET pkt == st.packets[pos] IN
         IF ~pkt.video
         THEN decode_next_frame_aborting(st, pos + 1, h, last)
         ELSE IF Rejected(h, pkt, st)
         THEN [got |-> FALSE, pts |-> last, no |-> -1, readPos |-> pos + 1, held |-> h]
         ELSE LET d == NextDrain(SendPacket(h, pkt), st, last) IN
              IF d.got
              THEN [got |-> TRUE, pts |-> d.pts, no |-> d.no, readPos |-> pos + 1, held |-> d.held]
              ELSE IF Len(d.held) < Len(h) + Len(pkt.frames)
              THEN [got |-> FALSE, pts |-> last, no |-> -1, readPos |-> pos + 1, held |-> d.held]
              ELSE decode_next_frame_aborting(st, pos + 1, d.held, d.pts)

\* decode_next_frame: read on from the demuxer's position, no seek, no flush
RECURSIVE decode_next_frame(_, _, _, _)
decode_next_frame(st, pos, h, last) ==
    IF pos > Len(st.packets)
    THEN [got |-> FALSE, pts |-> last, no |-> -1, readPos |-> pos, held |-> h]
    ELSE LET pkt == st.packets[pos] IN
         IF ~pkt.video \/ Rejected(h, pkt, st)
         THEN decode_next_frame(st, pos + 1, h, last)
         ELSE LET d == NextDrain(SendPacket(h, pkt), st, last) IN
              IF d.got
              THEN [got |-> TRUE, pts |-> d.pts, no |-> d.no, readPos |-> pos + 1, held |-> d.held]
              ELSE decode_next_frame(st, pos + 1, d.held, d.pts)

-----------------------------------------------------------------------------
(* avframe_to_cvmat and the scaling context FFPlayer caches for it *)

\* sws_ctx when no context is held
NullCtx == <<>>

\* width, height and pixel format of a frame
Triple(f) == <<f.w, f.h, f.fmt>>

\* the converter fields of a newly constructed FFPlayer
NoSws == [ctx |-> NullCtx, w |-> -1, h |-> -1, fmt |-> "none"]

\* the cached context cannot serve frame f (StaleBySize: faulty variant, the
\* pixel format is not compared)
StaleBySize(f, s) == s.ctx = NullCtx \/ s.w # f.w \/ s.h # f.h

Stale(f, s) == s.ctx = NullCtx \/ s.w # f.w \/ s.h # f.h \/ s.fmt # f.fmt

\* the converter fields after avframe_to_cvmat(f); sws_getContext is taken to
\* succeed, and ctx stands for the context by the triple it was built for
avframe_to_cvmat(f, s) ==
    IF Stale(f, s) THEN [ctx |-> Triple(f), w |-> f.w, h |-> f.h, fmt |-> f.fmt] ELSE s

\* history of the calls of avframe_to_cvmat:
\*   prev     the triple of the frame of the latest call (<<>>: no call yet)
\*   changes  calls whose frame's triple differed from the call before (the first counts)
\*   used     every call so far ran sws_scale on a context built for its frame's triple
NoSwsHistory == [prev |-> <<>>, changes |-> 0, used |-> TRUE]

Called(f, s, hist) ==
    [ prev    |-> Triple(f),
      changes |-> hist.changes + (IF Triple(f) # hist.prev THEN 1 ELSE 0),
      used    |-> hist.used /\ avframe_to_cvmat(f, s).ctx = Triple(f) ]

-----------------------------------------------------------------------------
(* The resources of FFPlayer: fmt_ctx, dec_ctx, sws_ctx *)

Resources == {"fmt_ctx", "dec_ctx", "sws_ctx"}

\* a newly constructed FFPlayer holds nothing; acq and rel count the
\* acquisitions and the releases of each resource
NoRes ==
    [ fmt_ctx |-> FALSE, dec_ctx |-> FALSE,
      acq |-> [x \in Resources |-> 0], rel |-> [x \in Resources |-> 0] ]

Acquire(r, x) == [r EXCEPT !.acq[x] = @ + 1]

Release(r, x) == [r EXCEPT !.rel[x] = @ + 1]

\* the steps of opening the input in main, in order; each can fail
OpenStages ==
    <<"open_input", "stream_info", "video_stream", "find_decoder", "alloc_context",
      "parameters", "open2">>

\* what the player holds when step i of OpenStages fails (i past the end:
\* every step succeeded)
HeldAt(i) ==
    LET a == IF i > 1 THEN [Acquire(NoRes, "fmt_ctx") EXCEPT !.fmt_ctx = TRUE] ELSE NoRes
    IN  IF i > 5 THEN [Acquire(a, "dec_ctx") EXCEPT !.dec_ctx = TRUE] ELSE a

\* avframe_to_cvmat's part in the resources: a stale context is freed, a new one built
Rebuilt(f, s, r) ==
    IF Stale(f, s)
    THEN Acquire(IF s.ctx # NullCtx THEN Release(r, "sws_ctx") ELSE r, "sws_ctx")
    ELSE r

\* ~FFPlayer (FFPlayerLeaky: faulty variant, dec_ctx is not freed)
FFPlayerLeaky(s, r) ==
    LET a == IF s.ctx # NullCtx THEN Release(r, "sws_ctx") ELSE r
    IN  IF a.fmt_ctx THEN [Release(a, "fmt_ctx") EXCEPT !.fmt_ctx = FALSE] ELSE a

DestroyFFPlayer(s, r) ==
    LET a == IF s.ctx # NullCtx THEN Release(r, "sws_ctx") ELSE r
        b == IF a.dec_ctx THEN [Release(a, "dec_ctx") EXCEPT !.dec_ctx = FALSE] ELSE a
    IN  IF b.fmt_ctx THEN [Release(b, "fmt_ctx") EXCEPT !.fmt_ctx = FALSE] ELSE b

-----------------------------------------------------------------------------
(* main: open, first frame, command loop *)

\* the record of the command handled last
\*   op      its name
\*   target  the frame number asked of seek_and_decode_frame by the latest seek
\*   seek    the command called av_seek_frame and it succeeded
\*   got     the command got a frame
\*   no      the place in the stream of the frame it got (-1: none)
\*   land    the packet av_seek_frame left the demuxer at (0: no successful seek)
\*   scan    the frames the command's seek scan passed over, in order: timestamp and place
\*   seen    the timestamps of those frames
\*   shown   the place in the stream of the frame shown last (-1: none yet)
\*   from    current_frame before the command
\*   from_playing  playing before the command
\*   round   for a step backward handled right after a step forward that got a
\*           frame: current_frame before that step forward (0 otherwise)
\*   eos     decode_next_frame calls that found no frame since the latest
\*           successful av_seek_frame, counted up to 2
Cmd(op, seeking, target, r, seen) ==
    [ op |-> op, target |-> IF seeking THEN target ELSE cmd.target,
      seek |-> r.seek, got |-> r.got, no |-> r.no, land |-> r.land,
      scan |-> seen, seen |-> { seen[i].pts : i \in DOMAIN seen },
      shown |-> IF r.got THEN r.no ELSE cmd.shown,
      from |-> current_frame, from_playing |-> playing,
      round |-> IF op = "back" /\ cmd.op = "next" /\ cmd.got THEN cmd.from ELSE 0,
      eos |-> IF r.seek THEN 0
              ELSE IF op = "tick" /\ ~r.got THEN (IF cmd.eos = 0 THEN 1 ELSE 2)
              ELSE cmd.eos ]

NoResult == [seek |-> FALSE, got |-> FALSE, no |-> -1, land |-> 0]

NoCmd ==
    [ op |-> "none", target |-> 0, seek |-> FALSE, got |-> FALSE,
      no |-> -1, land |-> 0, scan |-> <<>>, seen |-> {}, shown |-> -1,
      from |-> 0, from_playing |-> FALSE, round |-> 0, eos |-> 0 ]

NoConv == [step |-> "off", n |-> 0, ts |-> 0, back |-> 0]

Init ==
    /\ stream \in Streams
    /\ pc = "start"
    /\ readPos = 1
    /\ held = <<>>
    /\ last_shown_pts = AV_NOPTS_VALUE
    /\ current_frame = 0
    /\ playing = FALSE
    /\ cmd = NoCmd
    /\ conv = NoConv
    /\ sws = NoSws
    /\ swsh = NoSwsHistory
    /\ res = NoRes

\* current_frame after a seek or decode call: recomputed from last_shown_pts
\* when the call got a frame, left alone when it did not
\* faulty variant of FrameAfter: current_frame counted up, not recomputed
FrameAfterCounting(r, st, cf) == IF r.got THEN cf + 1 ELSE cf

FrameAfter(r, st, cf) == IF r.got THEN pts_to_frame_number(r.pts, st) ELSE cf

\* the frame a call got is converted for the window; without a frame nothing is
\* converted.  rs: the resources held when the call returns
Display(r, rs) ==
    IF r.got
    THEN LET f == FrameAt(stream, r.no) IN
         /\ sws' = avframe_to_cvmat(f, sws)
         /\ swsh' = Called(f, sws, swsh)
         /\ res' = Rebuilt(f, sws, rs)
    ELSE /\ res' = rs
         /\ UNCHANGED <<sws, swsh>>

\* the input cannot be opened, has no video stream, or its decoder cannot be set
\* up: main returns and the player is destroyed
OpenFails ==
    /\ pc = "start"
    /\ pc' = "done"
    /\ cmd' = Cmd("open", FALSE, 0, NoResult, <<>>)
    /\ \E i \in DOMAIN OpenStages : res' = DestroyFFPlayer(sws, HeldAt(i))
    /\ UNCHANGED <<stream, readPos, held, last_shown_pts, current_frame, playing, conv,
                   sws, swsh>>

\* main's playing when the command loop is entered (PlayingAtStart: faulty
\* variant, the loop is entered playing)
PlayingAtStart == TRUE

InitialPlaying == FALSE

\* the input opens; the first frame is sought at frame number 0
Open ==
    /\ pc = "start"
    /\ \E r \in seek_and_decode_frame(stream, readPos, held, last_shown_pts, 0) :
          /\ readPos' = r.readPos
          /\ held' = r.held
          /\ last_shown_pts' = r.pts
          /\ cmd' = Cmd("open", TRUE, 0, r, r.seen)
          /\ IF r.got
             THEN /\ pc' = "loop"
                  /\ playing' = InitialPlaying
                  /\ current_frame' = pts_to_frame_number(r.pts, stream)
                  /\ Display(r, HeldAt(Len(OpenStages) + 1))
             ELSE /\ pc' = "done"
                  /\ res' = DestroyFFPlayer(sws, HeldAt(Len(OpenStages) + 1))
                  /\ UNCHANGED <<playing, current_frame, sws, swsh>>
    /\ UNCHANGED <<stream, conv>>

\* faulty variant of IdleTick: playback is not paused at the end of the stream
IdleTickKeepsPlaying ==
    /\ pc = "loop"
    /\ playing
    /\ LET r == decode_next_frame(stream, readPos, held, last_shown_pts) IN
          /\ readPos' = r.readPos
          /\ held' = r.held
          /\ last_shown_pts' = r.pts
          /\ current_frame' = FrameAfter(r, stream, current_frame)
          /\ cmd' = Cmd("tick", FALSE, 0, [seek |-> FALSE, got |-> r.got, no |-> r.no, land |-> 0], <<>>)
          /\ Display(r, res)
    /\ UNCHANGED <<stream, pc, playing, conv>>

\* waitKey timed out while playing: the next frame in sequence
IdleTick ==
    /\ pc = "loop"
    /\ playing
    /\ LET r == decode_next_frame(stream, readPos, held, last_shown_pts) IN
          /\ readPos' = r.readPos
          /\ held' = r.held
          /\ last_shown_pts' = r.pts
          /\ current_frame' = FrameAfter(r, stream, current_frame)
          /\ playing' = r.got
          /\ cmd' = Cmd("tick", FALSE, 0, [seek |-> FALSE, got |-> r.got, no |-> r.no, land |-> 0], <<>>)
          /\ Display(r, res)
    /\ UNCHANGED <<stream, pc, conv>>

Quit ==
    /\ pc = "loop"
    /\ pc' = "done"
    /\ cmd' = Cmd("quit", FALSE, 0, NoResult, <<>>)
    /\ res' = DestroyFFPlayer(sws, res)
    /\ UNCHANGED <<stream, readPos, held, last_shown_pts, current_frame, playing, conv,
                   sws, swsh>>

TogglePlayPause ==
    /\ pc = "loop"
    /\ playing' = ~playing
    /\ cmd' = Cmd("toggle", FALSE, 0, NoResult, <<>>)
    /\ UNCHANGED <<stream, pc, readPos, held, last_shown_pts, current_frame, conv, sws, swsh, res>>

\* the targets of the step commands (StepForwardTargetSkip and
\* StepBackwardTargetUnclamped: faulty variants)
StepForwardTargetSkip(cf) == cf + 2

StepForwardTarget(cf) == cf + 1

StepBackwardTargetUnclamped(cf) == cf - 1

StepBackwardTarget(cf) == IF cf > 0 THEN cf - 1 ELSE 0

\* a step command: seek to the target, show the frame if there is one, pause
Step(op, target) ==
    /\ pc = "loop"
    /\ \E r \in seek_and_decode_frame(stream, readPos, held, last_shown_pts, target) :
          /\ readPos' = r.readPos
          /\ held' = r.held
          /\ last_shown_pts' = r.pts
          /\ current_frame' = FrameAfter(r, stream, current_frame)
          /\ cmd' = Cmd(op, TRUE, target, r, r.seen)
          /\ Display(r, res)
    /\ playing' = FALSE
    /\ UNCHANGED <<stream, pc, conv>>

StepForward == Step("next", StepForwardTarget(current_frame))

StepBackward == Step("back", StepBackwardTarget(current_frame))

Play ==
    /\ pc = "loop"
    /\ playing' = TRUE
    /\ cmd' = Cmd("play", FALSE, 0, NoResult, <<>>)
    /\ UNCHANGED <<stream, pc, readPos, held, last_shown_pts, current_frame, conv, sws, swsh, res>>

Pause ==
    /\ pc = "loop"
    /\ playing' = FALSE
    /\ cmd' = Cmd("pause", FALSE, 0, NoResult, <<>>)
    /\ UNCHANGED <<stream, pc, readPos, held, last_shown_pts, current_frame, conv, sws, swsh, res>>

\* any other key: no branch of the loop takes it
OtherKey ==
    /\ pc = "loop"
    /\ cmd' = Cmd("other", FALSE, 0, NoResult, <<>>)
    /\ UNCHANGED <<stream, pc, readPos, held, last_shown_pts, current_frame, playing, conv, sws, swsh, res>>

Next ==
    \/ OpenFails
    \/ Open
    \/ IdleTick
    \/ Quit
    \/ TogglePlayPause
    \/ StepForward
    \/ StepBackward
    \/ Play
    \/ Pause
    \/ OtherKey

Spec == Init /\ [][Next]_vars

-----------------------------------------------------------------------------
(* The conversions on their own: frame number -> timestamp -> frame number,
   over every rate and time base of ConvRates *)

ConvRates ==
    { [avg_frame_rate |-> a, r_frame_rate |-> r, time_base |-> t] :
        a \in {Q(0, 1), Q(25, 1), Q(24000, 1001), Q(50, 1), Q(30, 0)},
        r \in {Q(0, 1), Q(30, 1)},
        t \in {Q(1, 90000), Q(1, 1000), Q(1, 25), Q(1, 10)} }

ConvInit ==
    /\ stream \in { [avg_frame_rate |-> rc.avg_frame_rate, r_frame_rate |-> rc.r_frame_rate,
                     time_base |-> rc.time_base, shape |-> "none", packets |-> <<>>,
                     delay |-> 0] : rc \in ConvRates }
    /\ pc = "conv"
    /\ readPos = 1
    /\ held = <<>>
    /\ last_shown_pts = AV_NOPTS_VALUE
    /\ current_frame = 0
    /\ playing = FALSE
    /\ cmd = NoCmd
    /\ conv \in { [step |-> "number", n |-> n, ts |-> 0, back |-> 0] : n \in 0 .. MaxFrameNo }
    /\ sws = NoSws
    /\ swsh = NoSwsHistory
    /\ res = NoRes

ConvToTs ==
    /\ conv.step = "number"
    /\ conv' = [conv EXCEPT !.step = "timestamp",
                            !.ts = frame_number_to_stream_ts(conv.n, stream)]
    /\ UNCHANGED <<stream, pc, readPos, held, last_shown_pts, current_frame, playing, cmd,
                   sws, swsh, res>>

ConvToFrame ==
    /\ conv.step = "timestamp"
    /\ conv' = [conv EXCEPT !.step = "back",
                            !.back = pts_to_frame_number(conv.ts, stream)]
    /\ UNCHANGED <<stream, pc, readPos, held, last_shown_pts, current_frame, playing, cmd,
                   sws, swsh, res>>

ConvNext == ConvToTs \/ ConvToFrame

ConvSpec == ConvInit /\ [][ConvNext]_vars

-----------------------------------------------------------------------------
(* avframe_to_cvmat on its own: a player converts the frames of a stream whose
   geometry changes from frame to frame, then is destroyed *)

\* bound: the number of frames converted
MaxCalls == 3

Triples == { <<w, h, f>> : w \in {2, 4}, h \in {2, 4}, f \in {"yuv420p", "bgr24"} }

\* a stream of one-frame packets, frame i with the geometry g[i]
SwsStream(g) ==
    [ avg_frame_rate |-> Q(25, 1), r_frame_rate |-> Q(25, 1), time_base |-> Q(1, 25),
      shape |-> "geometry",
      packets |-> [i \in DOMAIN g |->
                     [ video |-> TRUE, key |-> TRUE, ts |-> i - 1, ok |-> TRUE,
                       frames |-> << [ no |-> i - 1, best |-> i - 1, pts |-> i - 1,
                                       err |-> FALSE,
                                       w |-> g[i][1], h |-> g[i][2], fmt |-> g[i][3] ] >> ]],
      delay |-> 0 ]

SwsInit ==
    /\ stream \in { SwsStream(g) : g \in [1 .. MaxCalls -> Triples] }
    /\ pc = "sws"
    /\ readPos = 1
    /\ held = <<>>
    /\ last_shown_pts = AV_NOPTS_VALUE
    /\ current_frame = 0
    /\ playing = FALSE
    /\ cmd = NoCmd
    /\ conv = NoConv
    /\ sws = NoSws
    /\ swsh = NoSwsHistory
    /\ res = HeldAt(Len(OpenStages) + 1)

\* the next frame of the stream is converted
SwsConvert ==
    /\ pc = "sws"
    /\ readPos <= Len(stream.packets)
    /\ LET f == stream.packets[readPos].frames[1] IN
          /\ sws' = avframe_to_cvmat(f, sws)
          /\ swsh' = Called(f, sws, swsh)
          /\ res' = Rebuilt(f, sws, res)
    /\ readPos' = readPos + 1
    /\ UNCHANGED <<stream, pc, held, last_shown_pts, current_frame, playing, cmd, conv>>

\* the player goes out of scope
SwsDestroy ==
    /\ pc = "sws"
    /\ pc' = "done"
    /\ res' = DestroyFFPlayer(sws, res)
    /\ UNCHANGED <<stream, readPos, held, last_shown_pts, current_frame, playing, cmd, conv,
                   sws, swsh>>

SwsNext == SwsConvert \/ SwsDestroy

SwsSpec == SwsInit /\ [][SwsNext]_vars

-----------------------------------------------------------------------------
(* Vocabulary of the properties *)

SeekOps == {"open", "next", "back"}

\* one frame duration is at least one tick of the time base
FineTimeBase(st) ==
    EffRate(st).den * st.time_base.den >= EffRate(st).num * st.time_base.num

\* the frames of the file a decoder without delay hands out
Decodable(st) ==
    UNION { { p.frames[i] : i \in { x \in DOMAIN p.frames : ~p.frames[x].err } } :
            p \in { st.packets[j] : j \in { y \in DOMAIN st.packets : st.packets[y].ok } } }

\* the timestamp a frame carries (AV_NOPTS_VALUE: none)
Carried(f) == IF f.best # AV_NOPTS_VALUE THEN f.best ELSE f.pts

\* the stream has a decodable frame stamped exactly with frame number n's timestamp
HasExact(st, n) ==
    \E f \in Decodable(st) : Carried(f) = frame_number_to_stream_ts(n, st)

\* the last frame of the stream is the one shown
AtLastFrame ==
    /\ cmd.shown # -1
    /\ \A f \in AllFrames(stream) : f.no <= cmd.shown

\* the stream of the scenario: 25 frames/second, time base 1/90000, every frame i
\* of 0 .. N-1 decodable and stamped 3600 * i
Scenario(st) ==
    /\ EffRate(st) = Q(25, 1)
    /\ st.time_base = Q(1, 90000)
    /\ AllFrames(st) = Decodable(st)
    /\ \A f \in AllFrames(st) : Carried(f) = 3600 * f.no
    /\ { f.no : f \in AllFrames(st) } = 0 .. (Cardinality(AllFrames(st)) - 1)

-----------------------------------------------------------------------------
(* Properties *)

\* C1: in every state of the command loop, whatever commands came before and
\* whether they got a frame or not, current_frame is the frame number of
\* last_shown_pts.
C1_CurrentFrameFromTimestamp ==
    pc = "loop" => current_frame = pts_to_frame_number(last_shown_pts, stream)

C1_Witness ==
    /\ pc = "loop"
    /\ cmd.op = "back"
    /\ ~cmd.got
    /\ cmd.eos > 0
    /\ current_frame > 1

\* C2: a seek that returns a frame returns one whose effective timestamp is at or
\* after the target's timestamp, has passed over only frames with effective
\* timestamps before it, and leaves last_shown_pts at the returned frame's
\* effective timestamp.
C2_SeekReturnsFirstAtOrAfter ==
    [][ (cmd'.op \in SeekOps /\ cmd'.got) =>
          LET target_ts == frame_number_to_stream_ts(cmd'.target, stream) IN
          /\ last_shown_pts' = EffPts(FrameAt(stream, cmd'.no), last_shown_pts)
          /\ last_shown_pts' >= target_ts
          /\ \A t \in cmd'.seen : t < target_ts ]_vars

C2_Witness ==
    /\ cmd.op = "next"
    /\ cmd.got
    /\ Cardinality(cmd.seen) >= 2

\* C3: on the stream of the scenario, a seek to frame number n of 0 .. N-1 whose
\* av_seek_frame succeeds looks for timestamp 3600 * n, returns the frame stamped
\* with it, and current_frame becomes n.
C3_ScenarioSeek ==
    (/\ cmd.op \in SeekOps
     /\ cmd.seek
     /\ Scenario(stream)
     /\ cmd.target \in 0 .. (Cardinality(AllFrames(stream)) - 1))
    => /\ frame_number_to_stream_ts(cmd.target, stream) = 3600 * cmd.target
       /\ cmd.got
       /\ last_shown_pts = 3600 * cmd.target
       /\ current_frame = cmd.target

\* C4 as stated: for every frame number, rate and time base the round trip
\* gives the frame number back.
C4_RoundTripAlways ==
    conv.step = "back" => conv.back = conv.n

\* C4: for every frame number n >= 0, and every rate and time base in which one
\* frame lasts at least one tick of the time base, converting n to a timestamp
\* and back gives n.
C4_RoundTrip ==
    (conv.step = "back" /\ FineTimeBase(stream)) => conv.back = conv.n

C4_Witness ==
    /\ conv.step = "back"
    /\ FineTimeBase(stream)
    /\ conv.n = 5
    /\ stream.avg_frame_rate = Q(24000, 1001)
    /\ stream.time_base = Q(1, 1000)
    /\ conv.ts = 209

\* C5 as stated: from any current_frame = k > 0, a step forward that gets a
\* frame followed at once by a step backward that gets a frame leaves
\* current_frame at k.
C5_StepSymmetryAlways ==
    (cmd.op = "back" /\ cmd.got /\ cmd.round > 0) => current_frame = cmd.round

\* C5: from current_frame = k > 0, on a stream with a frame lasting at least one
\* tick and decodable frames stamped exactly with the timestamps of frame
\* numbers k and k + 1, a step forward that gets a frame followed at once by a
\* step backward that gets a frame leaves current_frame at k.
C5_StepSymmetry ==
    (/\ cmd.op = "back"
     /\ cmd.got
     /\ cmd.round > 0
     /\ FineTimeBase(stream)
     /\ HasExact(stream, cmd.round)
     /\ HasExact(stream, cmd.round + 1))
    => current_frame = cmd.round

C5_Witness ==
    /\ cmd.op = "back"
    /\ cmd.got
    /\ cmd.round = 2
    /\ HasExact(stream, 2)
    /\ HasExact(stream, 3)
    /\ stream.shape = "gap"
    /\ current_frame = 2

\* C6 as stated: while the seek targets asked for do not decrease, no seek or
\* sequential decode lowers last_shown_pts.
C6_MonotoneByTargets ==
    [][ (\/ cmd'.op = "tick"
         \/ cmd'.op \in {"next", "back"} /\ cmd'.target >= cmd.target)
        => last_shown_pts' >= last_shown_pts ]_vars

\* C6: last_shown_pts is not lowered by a sequential decode, nor by a seek whose
\* target timestamp is at or after last_shown_pts.
C6_Monotone ==
    [][ (\/ cmd'.op = "tick"
         \/ /\ cmd'.op \in {"next", "back"}
            /\ frame_number_to_stream_ts(cmd'.target, stream) >= last_shown_pts)
        => last_shown_pts' >= last_shown_pts ]_vars

C6_Witness ==
    /\ cmd.op = "next"
    /\ cmd.got
    /\ cmd.from >= 2
    /\ frame_number_to_stream_ts(cmd.target, stream) <= last_shown_pts
    /\ Cardinality(cmd.seen) >= 1

\* C7: a step or an idle tick that gets no frame leaves last_shown_pts and
\* current_frame as they were; last_shown_pts changes only in a command that
\* gets a frame; a step forward with the stream's last frame shown gets no frame
\* and leaves current_frame alone.
C7_NoFrameNoChange ==
    [][ /\ (cmd'.op \in {"next", "back", "tick"} /\ ~cmd'.got)
           => (last_shown_pts' = last_shown_pts /\ current_frame' = current_frame)
        /\ (last_shown_pts' # last_shown_pts) => cmd'.got
        /\ (cmd'.op = "next" /\ AtLastFrame)
           => (~cmd'.got /\ current_frame' = current_frame) ]_vars

C7_Witness ==
    /\ cmd.op = "next"
    /\ cmd.shown = NumFrames - 1
    /\ cmd.seek
    /\ ~cmd.got
    /\ cmd.seen # {}
    /\ current_frame = NumFrames - 1
    /\ last_shown_pts = frame_number_to_stream_ts(NumFrames - 1, stream)

\* C8: after a step forward or backward, from playing or paused and with or
\* without a frame, playing is false; the step forward sought current_frame + 1
\* and the step backward current_frame - 1, or 0 from frame 0.
C8_StepPausesAndTargets ==
    [][ /\ cmd'.op = "next"
           => (~playing' /\ cmd'.target = current_frame + 1)
        /\ cmd'.op = "back"
           => (~playing' /\ cmd'.target = IF current_frame - 1 > 0 THEN current_frame - 1 ELSE 0)
      ]_vars

C8_Witness ==
    /\ cmd.op = "back"
    /\ cmd.from_playing
    /\ cmd.from = 0
    /\ cmd.target = 0
    /\ ~cmd.got
    /\ ~playing

\* C9: once a sequential decode has found no frame, every sequential decode
\* before the next successful av_seek_frame finds no frame and leaves
\* last_shown_pts alone.
C9_EndOfStreamSticks ==
    [][ (cmd.eos > 0 /\ cmd'.op = "tick")
        => (~cmd'.got /\ last_shown_pts' = last_shown_pts) ]_vars

C9_Witness ==
    /\ cmd.op = "tick"
    /\ cmd.eos = 2
    /\ ~cmd.got

\* C10: an idle tick that finds the stream exhausted pauses playback, issues no
\* seek, leaves the demuxer at the end of the input and current_frame as it
\* was; and playing turns true again only by a play or toggle command.
C10_EndOfStreamPauses ==
    [][ /\ (cmd'.op = "tick" /\ ~cmd'.got)
           => /\ ~playing'
              /\ current_frame' = current_frame
              /\ ~cmd'.seek
              /\ cmd'.target = cmd.target
              /\ readPos' > Len(stream.packets)
        /\ (~playing /\ playing') => cmd'.op \in {"play", "toggle"} ]_vars

C10_Witness ==
    /\ cmd.op = "tick"
    /\ ~cmd.got
    /\ ~playing
    /\ current_frame = NumFrames - 1

-----------------------------------------------------------------------------
\* C11: over the frames given to avframe_to_cvmat, the scaling context is
\* rebuilt on a call exactly when the frame's (width, height, pixel format)
\* differs from the frame of the call before (the first call counts as
\* differing); so there are as many rebuilds as changes of the triple, and every
\* conversion runs on a context built for its frame's triple.
C11_RebuildOnChange ==
    /\ [](/\ res.acq["sws_ctx"] = swsh.changes
          /\ swsh.used
          /\ (swsh.prev # <<>> => sws.ctx = swsh.prev))
    /\ [][ swsh' # swsh =>
             ((res'.acq["sws_ctx"] = res.acq["sws_ctx"] + 1) <=> (swsh'.prev # swsh.prev)) ]_vars

\* three calls: a rebuild, a call that keeps the context, a rebuild for a frame
\* that differs in the pixel format alone
C11_Witness ==
    /\ pc = "sws"
    /\ readPos = 4
    /\ res.acq["sws_ctx"] = 2
    /\ Triple(stream.packets[1].frames[1]) = Triple(stream.packets[2].frames[1])
    /\ stream.packets[3].frames[1].w = stream.packets[2].frames[1].w
    /\ stream.packets[3].frames[1].h = stream.packets[2].frames[1].h
    /\ stream.packets[3].frames[1].fmt # stream.packets[2].frames[1].fmt

-----------------------------------------------------------------------------
\* C12: the first seek_and_decode_frame(0) of a newly opened player, with
\* last_shown_pts still AV_NOPTS_VALUE, returns the first decodable frame of the
\* stream, for every stream that has a decodable frame.
C12_FirstFrameAtOpen ==
    (cmd.op = "open" /\ cmd.seek /\ Decodable(stream) # {}) =>
        /\ cmd.got
        /\ \A f \in Decodable(stream) : cmd.no <= f.no

-----------------------------------------------------------------------------
\* C13 as stated: when the open succeeds, the command loop is entered paused
\* with current_frame = 0.
C13_OpenAtFrameZero ==
    (cmd.op = "open" /\ pc = "loop") => (~playing /\ current_frame = 0)

\* C13, amended: when the open succeeds, the command loop is entered paused
\* with current_frame the frame number of the timestamp of the first frame the
\* seek to 0 delivered; that is 0 when the frame is the stream's frame 0.
C13_OpenPausedAtFirstFrame ==
    (cmd.op = "open" /\ pc = "loop") =>
        /\ ~playing
        /\ cmd.got
        /\ last_shown_pts = Carried(FrameAt(stream, cmd.no))
        /\ current_frame = pts_to_frame_number(last_shown_pts, stream)
        /\ (cmd.no = 0 => current_frame = 0)

\* the first packet of the stream cannot be decoded: the loop is entered at frame 1
C13_Witness ==
    /\ cmd.op = "open"
    /\ pc = "loop"
    /\ cmd.no = 1
    /\ current_frame = 1
    /\ ~playing

-----------------------------------------------------------------------------
\* C14: a step that got no frame leaves the player in the command loop, and
\* a step handled after it whose seek succeeds and whose target frame exists in
\* the stream delivers that frame and recomputes current_frame.
C14_StepAfterFailedStep ==
    [][ /\ (cmd'.op \in {"next", "back"} /\ ~cmd'.got) => pc' = "loop"
        /\ ( /\ cmd.op \in {"next", "back"} /\ ~cmd.got
             /\ cmd'.op \in {"next", "back"} /\ cmd'.seek
             /\ HasExact(stream, cmd'.target) )
           => ( /\ cmd'.got
                /\ last_shown_pts' = frame_number_to_stream_ts(cmd'.target, stream)
                /\ current_frame' = cmd'.target ) ]_vars

-----------------------------------------------------------------------------
\* C15: a packet the decoder rejects or a frame that fails to decode does not
\* end a seek scan or a sequential decode: the call that returns no frame has
\* read the input to its end, and no frame the seek scan was handed reached
\* the target.
C15_NoFrameOnlyAtEndOfInput ==
    [][ ( /\ \/ cmd'.op = "tick"
             \/ cmd'.op \in SeekOps /\ cmd'.seek
          /\ ~cmd'.got )
        => ( /\ readPos' > Len(stream.packets)
             /\ \A t \in cmd'.seen :
                   t < frame_number_to_stream_ts(cmd'.target, stream) ) ]_vars

\* a seek scan and a sequential decode that read past a bad packet or frame and
\* went on to deliver a later frame
C15_Witness ==
    /\ cmd.got
    /\ \/ cmd.op = "tick"
       \/ cmd.op \in {"next", "back"} /\ cmd.seek
    /\ \E b \in AllFrames(stream) \ Decodable(stream) :
          /\ b.no < cmd.no
          /\ cmd.from < b.no
          /\ cmd.op \in SeekOps => cmd.land <= PacketOf(stream, b.no)

-----------------------------------------------------------------------------
\* C16: on every way out of main after the player was constructed (each
\* failure of the open, the failure of the first frame, the quit command),
\* every resource acquired (fmt_ctx, dec_ctx, sws_ctx) has been released exactly
\* once; nothing is released twice; the command loop runs only while fmt_ctx
\* and dec_ctx are held, and nothing runs once they are released.
C16_ReleasedExactlyOnce ==
    /\ [](/\ \A x \in Resources : res.rel[x] <= res.acq[x]
          /\ pc = "done" => \A x \in Resources : res.rel[x] = res.acq[x]
          /\ pc = "loop" => /\ res.fmt_ctx /\ res.dec_ctx
                            /\ res.rel["fmt_ctx"] = 0 /\ res.rel["dec_ctx"] = 0
                            /\ res.acq["sws_ctx"] = res.rel["sws_ctx"] + 1)
    /\ [][ (res.rel["fmt_ctx"] > 0 \/ res.rel["dec_ctx"] > 0) => UNCHANGED vars ]_vars

\* the quit command after at least one more command: all three resources were
\* acquired and each was released once
C16_Witness ==
    /\ pc = "done"
    /\ cmd.op = "quit"
    /\ cmd.shown > 0
    /\ \A x \in Resources : res.acq[x] = 1 /\ res.rel[x] = 1
    /\ ~res.fmt_ctx
    /\ ~res.dec_ctx

-----------------------------------------------------------------------------
\* C17: over the frames without any timestamp that one seek scan is handed, in
\* the order the decoder hands them out, the effective timestamps synthesized
\* as last_shown_pts + 1 increase from frame to frame.
C17_SyntheticTimestampsIncrease ==
    \A i, j \in DOMAIN cmd.scan :
        ( /\ i < j
          /\ Carried(FrameAt(stream, cmd.scan[i].no)) = AV_NOPTS_VALUE
          /\ Carried(FrameAt(stream, cmd.scan[j].no)) = AV_NOPTS_VALUE )
        => cmd.scan[i].pts < cmd.scan[j].pts

-----------------------------------------------------------------------------
\* C18: when the av_seek_frame of a seek_and_decode_frame call succeeds, every
\* frame the call compares with the target, the frame it returns and the frames
\* it leaves in the decoder come from packets read after the seek: the decoder
\* was flushed before the first packet was read.
C18_OnlyFramesReadAfterSeek ==
    (cmd.op \in SeekOps /\ cmd.seek) =>
        LET fresh == { no \in { f.no : f \in AllFrames(stream) } :
                         PacketOf(stream, no) \in cmd.land .. (readPos - 1) }
        IN  /\ \A i \in DOMAIN cmd.scan : cmd.scan[i].no \in fresh
            /\ cmd.got => cmd.no \in fresh
            /\ \A i \in DOMAIN held : held[i].no \in fresh

\* a step backward taken while the decoder held a frame back: the seek lands
\* before the frame shown and the target is delivered
C18_Witness ==
    /\ cmd.op = "back"
    /\ cmd.seek
    /\ cmd.got
    /\ stream.delay = 1
    /\ cmd.from >= 2
    /\ cmd.no = cmd.target
    /\ Len(held) = 1

-----------------------------------------------------------------------------
\* C19: a decode_next_frame call that gets a frame gets the next decodable
\* frame after the one shown last, whether that one came from a seek or from
\* the call before: over consecutive calls no frame is skipped and none repeated.
C19_SequentialInOrder ==
    [][ (cmd'.op = "tick" /\ cmd'.got) =>
          /\ cmd.shown < cmd'.no
          /\ \A f \in Decodable(stream) : ~(cmd.shown < f.no /\ f.no < cmd'.no) ]_vars

\* the second of two calls after a step, on a stream with two frames in every
\* packet: the frame comes out of the decoder, which still holds later ones
C19_Witness ==
    /\ cmd.op = "tick"
    /\ cmd.got
    /\ stream.shape = "pair"
    /\ cmd.no = 3
    /\ Len(held) >= 2

-----------------------------------------------------------------------------
\* C20: when the idle tick finds the end of the stream, the frame shown last
\* is the last decodable frame of the stream: playing has delivered every frame
\* before the end of the stream is reported.
C20_PlayingReachesLastFrame ==
    (cmd.op = "tick" /\ ~cmd.got) =>
        \A f \in Decodable(stream) : f.no <= cmd.shown

=============================================================================
